---------------------------- MODULE Spec2Model ----------------------------
(***************************************************************************)
(* A model of tools/data_guard.py: the strict JSON loader, the reference   *)
(* extractor and the analyze() pipeline (scan, identifier index, integrity *)
(* checks, manifest, report, schema validation, exit status).              *)
(*                                                                         *)
(* JSON text and JSON values are trees of nodes [t, s, kids]:              *)
(*   t = "obj"  kids = the object's members, in document order ("pair"s)   *)
(*   t = "pair" s = the key, kids = <<value>>                              *)
(*   t = "arr"  kids = the elements                                        *)
(*   t = "str"  s = the string; "num", "null": scalars                     *)
(*   t = "bad"  text that is not JSON from this position on                *)
(* A file's text is the tree of what is written in it, so an object of a   *)
(* text may repeat a key; a loaded value never does.                       *)
(***************************************************************************)
EXTENDS Integers, Sequences, FiniteSets, TLC

Str(x) == [t |-> "str", s |-> x, kids |-> <<>>]
Num == [t |-> "num", s |-> "7", kids |-> <<>>]
Null == [t |-> "null", s |-> "", kids |-> <<>>]
Bad == [t |-> "bad", s |-> "", kids |-> <<>>]
Pair(k, v) == [t |-> "pair", s |-> k, kids |-> <<v>>]
Obj(pairs) == [t |-> "obj", s |-> "", kids |-> pairs]
Arr(items) == [t |-> "arr", s |-> "", kids |-> items]

KeyOf(p) == p.s
ValOf(p) == p.kids[1]
IsDict(n) == n.t = "obj"
IsList(n) == n.t = "arr"
IsStr(n) == n.t = "str"
IsNone(n) == n.t = "null"

Range(f) == {f[x] : x \in DOMAIN f}

-----------------------------------------------------------------------------
(* Strict loader                                                           *)

\* dict.__contains__ / dict.get on a loaded object
HasKey(o, k) == \E j \in 1..Len(o.kids) : KeyOf(o.kids[j]) = k
Get(o, k) ==
  IF HasKey(o, k)
  THEN ValOf(o.kids[CHOOSE j \in 1..Len(o.kids) : KeyOf(o.kids[j]) = k])
  ELSE Null

\* seen[k] = v: a key keeps the place of its first insertion and takes the
\* last value
DictSet(seen, k, v) ==
  IF \E j \in 1..Len(seen) : KeyOf(seen[j]) = k
  THEN [j \in 1..Len(seen) |-> IF KeyOf(seen[j]) = k THEN Pair(k, v) ELSE seen[j]]
  ELSE Append(seen, Pair(k, v))

RECURSIVE PairsFold(_, _, _, _)
PairsFold(pairs, j, seen, dups) ==
  IF j > Len(pairs) THEN [seen |-> seen, dups |-> dups]
  ELSE LET k == KeyOf(pairs[j])
           v == ValOf(pairs[j])
           isDup == \E m \in 1..Len(seen) : KeyOf(seen[m]) = k
       IN PairsFold(pairs, j + 1, DictSet(seen, k, v),
                    IF isDup THEN Append(dups, k) ELSE dups)

\* A key repeated later in the pair list is not noticed (a plausible slip:
\* comparing each key with the previous one only)
object_pairs_adjacent_only(pairs) ==
  LET r == PairsFold(pairs, 1, <<>>, <<>>)
      adj == {pairs[j].s : j \in {m \in 2..Len(pairs) : pairs[m].s = pairs[m - 1].s}}
  IN [err |-> IF adj = {} THEN "none" ELSE "dupkey", keys |-> adj, val |-> Obj(r.seen)]

\* The hook json.load calls with each completed object's pairs
_object_pairs_no_duplicates(pairs) ==
  LET r == PairsFold(pairs, 1, <<>>, <<>>)
  IN [err |-> IF r.dups = <<>> THEN "none" ELSE "dupkey",
      keys |-> Range(r.dups),
      val |-> Obj(r.seen)]

\* json.load with the hook: the text is read left to right, the hook runs when
\* an object closes, the first failure ends the load.
RECURSIVE Decode(_), DecodeKids(_, _, _)
DecodeKids(kids, j, acc) ==
  IF j > Len(kids) THEN [err |-> "none", keys |-> {}, val |-> Arr(acc)]
  ELSE LET k == kids[j]
           r == Decode(IF k.t = "pair" THEN ValOf(k) ELSE k)
       IN IF r.err # "none" THEN r
          ELSE DecodeKids(kids, j + 1,
                          Append(acc, IF k.t = "pair" THEN Pair(KeyOf(k), r.val) ELSE r.val))

Decode(n) ==
  CASE n.t = "bad" -> [err |-> "syntax", keys |-> {}, val |-> Null]
    [] n.t = "arr" -> DecodeKids(n.kids, 1, <<>>)
    [] n.t = "obj" ->
         LET r == DecodeKids(n.kids, 1, <<>>)
         IN IF r.err # "none" THEN r ELSE _object_pairs_no_duplicates(r.val.kids)
    [] OTHER -> [err |-> "none", keys |-> {}, val |-> n]

\* load_json_strict: open() may fail with an OSError; a JSONDecodeError becomes
\* a ValueError, a DuplicateKeyError bubbles up.
load_json_strict(openOk, text) ==
  IF ~openOk THEN [err |-> "io", keys |-> {}, val |-> Null] ELSE Decode(text)


-----------------------------------------------------------------------------
(* Strings: str.endswith, str.lower, comparison by code point, Path.parts   *)

EndsWith(x, suf) ==
  Len(x) >= Len(suf) /\ SubSeq(x, Len(x) - Len(suf) + 1, Len(x)) = suf
StartsWith(x, pre) == Len(x) >= Len(pre) /\ SubSeq(x, 1, Len(pre)) = pre

\* The characters the model's strings use, in code point order
CodePoints == "$./0123456789ABCDEFGHIJKLMNOPQRSTUVWXYZ_abcdefghijklmnopqrstuvwxyz"
Ord(c) == CHOOSE j \in 1..Len(CodePoints) : SubSeq(CodePoints, j, j) = c

RECURSIVE StrLt(_, _)
StrLt(a, b) ==
  IF b = "" THEN FALSE
  ELSE IF a = "" THEN TRUE
  ELSE LET ca == SubSeq(a, 1, 1)
           cb == SubSeq(b, 1, 1)
       IN IF ca = cb THEN StrLt(SubSeq(a, 2, Len(a)), SubSeq(b, 2, Len(b)))
          ELSE Ord(ca) < Ord(cb)

UpperChars == "ABCDEFGHIJKLMNOPQRSTUVWXYZ"
LowerChars == "abcdefghijklmnopqrstuvwxyz"
LowerChar(c) ==
  IF \E j \in 1..Len(UpperChars) : SubSeq(UpperChars, j, j) = c
  THEN LET j == CHOOSE m \in 1..Len(UpperChars) : SubSeq(UpperChars, m, m) = c
       IN SubSeq(LowerChars, j, j)
  ELSE c
RECURSIVE Lower(_)
Lower(x) == IF x = "" THEN "" ELSE LowerChar(SubSeq(x, 1, 1)) \o Lower(SubSeq(x, 2, Len(x)))

\* Path(rel).parts of a relative posix path
RECURSIVE PathParts(_, _, _)
PathParts(x, cur, acc) ==
  IF x = "" THEN (IF cur = "" THEN acc ELSE Append(acc, cur))
  ELSE LET c == SubSeq(x, 1, 1)
           rest == SubSeq(x, 2, Len(x))
       IN IF c = "/" THEN PathParts(rest, "", IF cur = "" THEN acc ELSE Append(acc, cur))
          ELSE PathParts(rest, cur \o c, acc)

\* Path.__lt__: two paths compare as their sequences of parts do
RECURSIVE PartsLt(_, _)
PartsLt(a, b) ==
  IF b = <<>> THEN FALSE
  ELSE IF a = <<>> THEN TRUE
  ELSE IF Head(a) = Head(b) THEN PartsLt(Tail(a), Tail(b))
  ELSE StrLt(Head(a), Head(b))

PathLt(p, q) == PartsLt(PathParts(p, "", <<>>), PathParts(q, "", <<>>))

\* sorted(list_of_paths)
RECURSIVE SortPaths(_)
SortPaths(S) ==
  IF S = {} THEN <<>>
  ELSE LET m == CHOOSE x \in S : \A y \in S : ~PathLt(y, x)
       IN <<m>> \o SortPaths(S \ {m})

\* sorted(set_of_strings)
RECURSIVE SortStrs(_)
SortStrs(S) ==
  IF S = {} THEN <<>>
  ELSE LET m == CHOOSE x \in S : \A y \in S : ~StrLt(y, x)
       IN <<m>> \o SortStrs(S \ {m})

\* All the orders in which a set may be iterated
RECURSIVE Perms(_)
Perms(S) ==
  IF S = {} THEN {<<>>}
  ELSE UNION {{<<x>> \o q : q \in Perms(S \ {x})} : x \in S}

-----------------------------------------------------------------------------
(* Scanning & hashing                                                      *)

ASSET_EXTS == {".png", ".jpg", ".jpeg", ".dds", ".tga", ".wav", ".mp3", ".ogg",
               ".ttf", ".otf", ".bin", ".shader", ".hlsl", ".glsl", ".fx"}

\* p.suffix.lower() in ASSET_EXTS, for names that do not start with a dot
HasAssetSuffix(p) == \E ext \in ASSET_EXTS : EndsWith(Lower(p), ext)

\* The digest of a file's bytes (no two contents share one)
sha256_of_file(bytes) == <<"sha256", bytes>>

guess_type_from_path(rel) ==
  LET parts == PathParts(rel, "", <<>>)
  IN IF \E j \in 1..Len(parts) : parts[j] = "data"
     THEN LET idx == CHOOSE j \in 1..Len(parts) :
                       parts[j] = "data" /\ \A m \in 1..(j - 1) : parts[m] # "data"
          IN IF idx + 1 <= Len(parts) THEN parts[idx + 1] ELSE "data"
     ELSE "data"

-----------------------------------------------------------------------------
(* JSON traversal and reference detection                                  *)

RECURSIVE iter_json_values(_), IterValuesSeq(_, _)
IterValuesSeq(kids, j) ==
  IF j > Len(kids) THEN <<>>
  ELSE iter_json_values(IF kids[j].t = "pair" THEN ValOf(kids[j]) ELSE kids[j])
         \o IterValuesSeq(kids, j + 1)
iter_json_values(obj) ==
  IF IsDict(obj) \/ IsList(obj) THEN IterValuesSeq(obj.kids, 1) ELSE <<obj>>

RECURSIVE iter_json_pairs(_), IterPairsSeq(_, _)
IterPairsSeq(kids, j) ==
  IF j > Len(kids) THEN <<>>
  ELSE (IF kids[j].t = "pair"
        THEN <<kids[j]>> \o iter_json_pairs(ValOf(kids[j]))
        ELSE iter_json_pairs(kids[j]))
         \o IterPairsSeq(kids, j + 1)
iter_json_pairs(obj) ==
  IF IsDict(obj) \/ IsList(obj) THEN IterPairsSeq(obj.kids, 1) ELSE <<>>

StrItems(v) == {v.kids[j].s : j \in {m \in 1..Len(v.kids) : IsStr(v.kids[m])}}

\* A variant that looks at the members of the record itself only
extract_deps_top_level(content) ==
  UNION {LET k == KeyOf(content.kids[j])
             v == ValOf(content.kids[j])
         IN IF IsStr(v) /\ EndsWith(k, "_id") THEN {v.s}
            ELSE IF IsList(v) /\ EndsWith(k, "_ids") THEN StrItems(v)
            ELSE {} : j \in 1..Len(content.kids)}

extract_deps(content) ==
  LET ps == iter_json_pairs(content)
  IN UNION {LET k == KeyOf(ps[j])
                v == ValOf(ps[j])
            IN IF IsStr(v) /\ EndsWith(k, "_id") THEN {v.s}
               ELSE IF IsList(v) /\ EndsWith(k, "_ids") THEN StrItems(v)
               ELSE {} : j \in 1..Len(ps)}

extract_asset_refs(content) ==
  LET vs == iter_json_values(content)
  IN {vs[j].s : j \in {m \in 1..Len(vs) : IsStr(vs[m]) /\ HasAssetSuffix(vs[m].s)}}


-----------------------------------------------------------------------------
(* Formatting                                                              *)

\* A file's bytes: the JSON written in it and how it is laid out ("dump": as
\* json.dump(indent=2) plus a newline lays it out; "hand": any other layout)
Text(fmt, doc) == [fmt |-> fmt, doc |-> doc]
NoFile == Text("none", Null)

\* A variant that turns the order of the keys around instead of sorting them
RECURSIVE reverse_keys(_)
reverse_keys(o) ==
  IF ~IsDict(o) THEN o
  ELSE Obj([j \in 1..Len(o.kids) |->
              Pair(KeyOf(o.kids[Len(o.kids) + 1 - j]),
                   reverse_keys(ValOf(o.kids[Len(o.kids) + 1 - j])))])

RECURSIVE sort_keys(_)
sort_keys(o) ==
  IF ~IsDict(o) THEN o
  ELSE LET ks == SortStrs({KeyOf(o.kids[j]) : j \in 1..Len(o.kids)})
           keys == IF HasKey(o, "id")
                   THEN <<"id">> \o SelectSeq(ks, LAMBDA k : k # "id")
                   ELSE ks
       IN Obj([j \in 1..Len(keys) |-> Pair(keys[j], sort_keys(Get(o, keys[j])))])

\* A variant that writes to the document's own path
same_path(path) == path

\* line 232: path.with_suffix(path.suffix + ".tmp")
with_suffix_tmp(path) == path \o ".tmp"

\* A variant that also keeps a copy of the file it replaces
rewrite_targets_with_backup(path) == {with_suffix_tmp(path), path, path \o ".bak"}

\* The files stable_json_dump creates or changes: the temporary file (line
\* 233) and the path it is moved to (line 236)
rewrite_targets(path) == {with_suffix_tmp(path), path}

\* What stable_json_dump leaves at the path when nothing fails
stable_json_dump(obj) == Text("dump", sort_keys(obj))

-----------------------------------------------------------------------------
(* The input trees                                                         *)

RelA == "data/items/a.json"
RelB == "data/items/b.json"
RelC == "data/npcs/c.json"
AllRels == {RelA, RelB, RelC}

\* Files of the tree besides the documents (never changed by a run)
OtherFiles ==
  {"res/tex.png", "resources/snd.ogg", "res/notes.txt", "data/items/icon.png",
   "res/a/x.png", "res/a.b/x.png"}

DocSword == Obj(<<Pair("id", Str("sword"))>>)
DocSword2 == Obj(<<Pair("name", Str("blade")), Pair("id", Str("sword")),
                   Pair("owner_id", Str("ghost"))>>)
DocPotion == Obj(<<Pair("id", Str("potion")), Pair("item_id", Str("sword")),
                   Pair("self_id", Str("potion")),
                   Pair("icon", Str("missing.png")), Pair("thumb", Str("missing.png")),
                   Pair("tex", Str("tex.png")), Pair("img", Str("data/items/icon.png")),
                   Pair("snd", Str("GONE.OGG"))>>)
DocRefs == Obj(<<Pair("item_ids", Arr(<<Str("ghost"), Str("sword"), Str("ghost"), Num,
                                        Str("elf")>>)),
                 Pair("links", Arr(<<Obj(<<Pair("to_id", Str("potion")),
                                           Pair("kind", Str("road"))>>)>>))>>)
DocNumId == Obj(<<Pair("id", Num), Pair("$schema", Num), Pair("void_id", Str(""))>>)
DocEmptyId == Obj(<<Pair("id", Str(""))>>)
DocNullId == Obj(<<Pair("pic", Str("tex.png")), Pair("id", Null), Pair("maker_id", Str("elf"))>>)
DocSyntax == Obj(<<Pair("id", Str("sword")), Pair("name", Bad)>>)
DocDupKey == Obj(<<Pair("id", Str("potion")), Pair("id", Str("sword"))>>)
DocSchema == Obj(<<Pair("id", Str("potion")), Pair("$schema", Str("item.schema.json"))>>)
DocArray == Arr(<<Obj(<<Pair("id", Str("sword"))>>)>>)

\* The bytes a document may hold: hand-written files, and one file that is
\* already laid out as json.dump lays it out
Catalog ==
  {Text("hand", d) : d \in {DocSword2, DocPotion, DocRefs, DocNumId, DocEmptyId,
                            DocNullId, DocSyntax, DocDupKey, DocSchema, DocArray}}
    \cup {Text("dump", DocSword)}

\* The bytes the third document may hold
SmallCatalog == {Text("hand", DocSword2), Text("dump", DocSword)}

\* What a text of the catalog loads as, or Null
LoadedDoc(t) ==
  LET r == load_json_strict(TRUE, t.doc) IN IF r.err = "none" THEN r.val ELSE Null

\* Every content a document can have during a run: the catalog and what
\* stable_json_dump makes of it
KnownTexts ==
  Catalog \cup {stable_json_dump(LoadedDoc(t)) : t \in {c \in Catalog : IsDict(LoadedDoc(c))}}

\* The per-file results of lines 263-281 and 305, tabulated by content
FileFacts ==
  [t \in KnownTexts |->
     LET r == load_json_strict(TRUE, t.doc)
         ok == r.err = "none" /\ IsDict(r.val)
     IN [load |-> r,
         deps |-> IF ok THEN extract_deps(r.val) ELSE {},
         asset_refs |-> IF ok THEN extract_asset_refs(r.val) ELSE {},
         dump |-> IF ok THEN stable_json_dump(r.val) ELSE NoFile]]

TypeOf == [r \in AllRels |-> guess_type_from_path(r)]


-----------------------------------------------------------------------------
(* Types of the pipeline                                                   *)

\* Optional[str]
None == [some |-> FALSE, v |-> ""]
Some(x) == [some |-> TRUE, v |-> x]
\* Python truth of an Optional[str]: None and "" are false
Truthy(o) == o.some /\ o.v # ""

\* One line of Report.errors or Report.warnings, by what the message holds
Finding(kind, path, id, count, first, items) ==
  [kind |-> kind, path |-> path, id |-> id, count |-> count, first |-> first,
   items |-> items]

LoadKinds == {"io", "syntax", "dupkey"}

\* str(e) of what load_json_strict raised: the OSError and the syntax error
\* name the path, the DuplicateKeyError message names the keys only
LoadError(jp, load) ==
  IF load.err = "dupkey"
  THEN Finding("dupkey", "", "", 0, "", SortStrs(load.keys))
  ELSE Finding(load.err, jp, "", 0, "", <<>>)

EmptyMap == [x \in {} |-> ""]

\* Counter: keys in insertion order
CounterInc(c, k) ==
  IF \E j \in 1..Len(c) : c[j].id = k
  THEN [j \in 1..Len(c) |-> IF c[j].id = k THEN [c[j] EXCEPT !.n = @ + 1] ELSE c[j]]
  ELSE Append(c, [id |-> k, n |-> 1])

-----------------------------------------------------------------------------
(* analyze: the per-file loop body (lines 260-307)                         *)

\* A variant that indexes a record without identifier under its path
index_add_path_for_id(idx, df) ==
  LET key == IF Truthy(df.id) THEN df.id.v ELSE df.rel
  IN IF key \in DOMAIN idx.id_to_df
     THEN [idx EXCEPT !.id_dups = CounterInc(@, key)]
     ELSE [idx EXCEPT !.id_to_df = @ @@ (key :> df.rel)]

\* if jid: count a duplicate, or store the first owner
index_add(idx, df) ==
  IF Truthy(df.id)
  THEN IF df.id.v \in DOMAIN idx.id_to_df
       THEN [idx EXCEPT !.id_dups = CounterInc(@, df.id.v)]
       ELSE [idx EXCEPT !.id_to_df = @ @@ (df.id.v :> df.rel)]
  ELSE idx

\* A variant that rewrites the file although nothing was loaded from it
load_failed_rewrites(st, jp, load) ==
  [st EXCEPT !.errors = Append(@, LoadError(jp, load)),
             !.disk = IF st.disk[jp] = NoFile THEN @
                      ELSE [@ EXCEPT ![jp] = Text("dump", Null)]]

\* A variant that still lists the document that failed to load
load_failed_keeps_record(st, jp, load) ==
  [st EXCEPT !.errors = Append(@, LoadError(jp, load)),
             !.datafiles = Append(@, [rel |-> jp, id |-> None, type_guess |-> TypeOf[jp],
                                      schema |-> None,
                                      sha256 |-> sha256_of_file(st.disk[jp]),
                                      deps |-> {}, asset_refs |-> {}])]

\* lines 264-266: the except branch records the error and goes on to the next
\* file
load_failed(st, jp, load) ==
  [st EXCEPT !.errors = Append(@, LoadError(jp, load))]

\* One pass of the loop over json_paths. fault is the I/O failure this pass
\* meets: "open" (in load_json_strict), "hash" (in sha256_of_file), "rewrite"
\* (in stable_json_dump, opening the temporary file), "replace" (in
\* stable_json_dump, once the temporary file is there) or "none". st.raised: the exception that leaves
\* analyze, if one does: content.get of a value that is no dict (line 268) is
\* an AttributeError, and nothing catches it or the hash's OSError.
scan_one(st, jp, fault, fix) ==
  LET text == st.disk[jp]
      load == IF fault = "open" THEN load_json_strict(FALSE, text.doc)
              ELSE FileFacts[text].load
  IN
  IF load.err # "none"
  THEN load_failed(st, jp, load)
  ELSE IF ~IsDict(load.val)
  THEN [st EXCEPT !.raised = "AttributeError"]
  ELSE
    LET content == load.val
        rawid == Get(content, "id")
        badid == ~IsNone(rawid) /\ ~IsStr(rawid)
        jid == IF IsStr(rawid) THEN Some(rawid.s) ELSE None
        rawschema == Get(content, "$schema")
        badschema == ~IsNone(rawschema) /\ ~IsStr(rawschema)
        schema == IF IsStr(rawschema) THEN Some(rawschema.s) ELSE None
        errs1 == IF badid
                 THEN Append(st.errors, Finding("idtype", jp, "", 0, "", <<>>))
                 ELSE st.errors
        warns1 == IF badschema
                  THEN Append(st.warnings, Finding("schematype", jp, "", 0, "", <<>>))
                  ELSE st.warnings
    IN
    IF fault = "hash"
    THEN [st EXCEPT !.errors = errs1, !.warnings = warns1, !.raised = "OSError"]
    ELSE
      LET df == [rel |-> jp, id |-> jid, type_guess |-> TypeOf[jp],
                 schema |-> schema, sha256 |-> sha256_of_file(text),
                 deps |-> FileFacts[text].deps,
                 asset_refs |-> FileFacts[text].asset_refs]
          idx == index_add([id_to_df |-> st.id_to_df, id_dups |-> st.id_dups], df)
      IN [st EXCEPT
            !.datafiles = Append(@, df),
            !.id_to_df = idx.id_to_df,
            !.id_dups = idx.id_dups,
            !.warnings = warns1,
            !.errors = IF fix /\ fault \in {"rewrite", "replace"}
                       THEN Append(errs1, Finding("rewrite", jp, "", 0, "", <<>>))
                       ELSE errs1,
            !.disk = IF fix /\ fault \notin {"rewrite", "replace"}
                     THEN [@ EXCEPT ![jp] = FileFacts[text].dump]
                     ELSE @,
            !.written = IF ~fix \/ fault = "rewrite" THEN @
                        ELSE IF fault = "replace" THEN @ \cup {with_suffix_tmp(jp)}
                        ELSE @ \cup rewrite_targets(jp)]

-----------------------------------------------------------------------------
(* analyze: the checks after the loop (lines 309-350)                      *)

duplicate_id_errors(id_to_df, id_dups) ==
  [j \in 1..Len(id_dups) |->
     Finding("dupid", "", id_dups[j].id, id_dups[j].n + 1,
             IF id_dups[j].id \in DOMAIN id_to_df THEN id_to_df[id_dups[j].id] ELSE "",
             <<>>)]

\* A variant that does not let a record's reference resolve to the record
\* itself
missing_or_self(df, id_to_df) ==
  df.deps \ (DOMAIN id_to_df \ (IF df.id.some THEN {df.id.v} ELSE {}))

Missing(df, id_to_df) == df.deps \ DOMAIN id_to_df

\* A variant that names only the first missing identifier of a record
unresolved_errors_first_only(datafiles, id_to_df) ==
  LET bad == SelectSeq(datafiles, LAMBDA df : Missing(df, id_to_df) # {})
  IN [j \in 1..Len(bad) |->
        Finding("unresolved", bad[j].rel, "", 0, "",
                SubSeq(SortStrs(Missing(bad[j], id_to_df)), 1, 1))]

unresolved_errors(datafiles, id_to_df) ==
  LET bad == SelectSeq(datafiles, LAMBDA df : Missing(df, id_to_df) # {})
  IN [j \in 1..Len(bad) |->
        Finding("unresolved", bad[j].rel, "", 0, "", SortStrs(Missing(bad[j], id_to_df)))]

\* The files at or under root: the documents on disk and the other files
Exists(disk, p) == p \in OtherFiles \/ (p \in DOMAIN disk /\ disk[p] # NoFile)

collect_asset_files ==
  {p \in OtherFiles :
     (StartsWith(p, "res/") \/ StartsWith(p, "resources/")) /\ HasAssetSuffix(p)}

ResolveAt(disk, p) ==
  IF p \in collect_asset_files THEN (IF Exists(disk, p) THEN Some(p) ELSE None)
  ELSE IF Exists(disk, p) /\ HasAssetSuffix(p) THEN Some(p)
  ELSE [some |-> FALSE, v |-> "next"]

\* A variant that looks relative to the root only
resolve_asset_root_only(disk, candidate) ==
  LET r0 == ResolveAt(disk, candidate)
  IN IF r0.v # "next" THEN r0 ELSE None

resolve_asset(disk, candidate) ==
  LET r0 == ResolveAt(disk, candidate)
      r1 == ResolveAt(disk, "res/" \o candidate)
      r2 == ResolveAt(disk, "resources/" \o candidate)
  IN IF r0.v # "next" THEN r0
     ELSE IF r1.v # "next" THEN r1
     ELSE IF r2.v # "next" THEN r2
     ELSE None

MissingAssets(disk, df) == {ref \in df.asset_refs : ~resolve_asset(disk, ref).some}

\* The warnings of the asset check, in every order the iteration of each
\* record's set of references may take
RECURSIVE asset_warnings(_, _, _)
asset_warnings(disk, datafiles, j) ==
  IF j > Len(datafiles) THEN {<<>>}
  ELSE {[m \in 1..Len(q) |-> Finding("asset", datafiles[j].rel, q[m], 0, "", <<>>)] \o rest :
          q \in Perms(MissingAssets(disk, datafiles[j])),
          rest \in asset_warnings(disk, datafiles, j + 1)}


-----------------------------------------------------------------------------
(* analyze: the manifest (lines 352-386)                                   *)

SortKey(df) == <<df.type_guess, IF Truthy(df.id) THEN df.id.v ELSE df.rel>>
KeyLt(a, b) == StrLt(a[1], b[1]) \/ (a[1] = b[1] /\ StrLt(a[2], b[2]))

\* sorted(datafiles, key=...): stable
RECURSIVE SortedByKey(_, _, _)
SortedByKey(dfs, j, acc) ==
  IF j > Len(dfs) THEN acc
  ELSE LET x == dfs[j]
           n == Cardinality({m \in 1..Len(acc) : ~KeyLt(SortKey(x), SortKey(acc[m]))})
       IN SortedByKey(dfs, j + 1,
                      SubSeq(acc, 1, n) \o <<x>> \o SubSeq(acc, n + 1, Len(acc)))

AssetBytes(p) == "bytes of " \o p

manifest_data(datafiles) ==
  LET srt == SortedByKey(datafiles, 1, <<>>)
  IN [j \in 1..Len(srt) |->
        [id |-> srt[j].id, type |-> srt[j].type_guess, path |-> srt[j].rel,
         sha256 |-> srt[j].sha256, deps |-> SortStrs(srt[j].deps),
         has_schema |-> Truthy(srt[j].schema), schema |-> srt[j].schema]]

manifest_assets ==
  LET srt == SortPaths(collect_asset_files)
  IN [j \in 1..Len(srt) |->
        [path |-> srt[j], sha256 |-> sha256_of_file(AssetBytes(srt[j])),
         size_bytes |-> Len(AssetBytes(srt[j]))]]

manifest_stats(datafiles) ==
  LET types == SortStrs({datafiles[j].type_guess : j \in 1..Len(datafiles)})
  IN [data_files |-> Len(datafiles),
      assets |-> Cardinality(collect_asset_files),
      types |-> [j \in 1..Len(types) |->
                   <<types[j],
                     Cardinality({m \in 1..Len(datafiles) :
                                    datafiles[m].type_guess = types[j]})>>]]

\* The manifest json.dump writes; now is datetime.utcnow() to the second
build_manifest(now, datafiles) ==
  [generated_at_utc |-> now, root |-> "root",
   data |-> manifest_data(datafiles),
   assets |-> manifest_assets,
   stats |-> manifest_stats(datafiles)]

-----------------------------------------------------------------------------
(* Schema validation (lines 179-215): what try_schema_validate adds for a  *)
(* record, by what it meets                                                *)

SchemaOutcomes == {"not_installed", "not_found", "load_failed", "invalid", "valid"}

\* A variant that takes the missing engine for an error
schema_errors_engine_required(df, outcome) ==
  IF ~Truthy(df.schema) THEN <<>>
  ELSE IF outcome \in {"not_installed", "load_failed"}
  THEN <<Finding("schemaload", df.rel, "", 0, "", <<>>)>>
  ELSE IF outcome = "invalid" THEN <<Finding("schemainvalid", df.rel, "", 0, "", <<>>)>>
  ELSE <<>>

schema_errors(df, outcome) ==
  IF ~Truthy(df.schema) THEN <<>>
  ELSE IF outcome = "load_failed" THEN <<Finding("schemaload", df.rel, "", 0, "", <<>>)>>
  ELSE IF outcome = "invalid" THEN <<Finding("schemainvalid", df.rel, "", 0, "", <<>>)>>
  ELSE <<>>

schema_warnings(df, outcome) ==
  IF ~Truthy(df.schema) THEN <<>>
  ELSE IF outcome = "not_installed"
  THEN <<Finding("noschemaengine", df.rel, "", 0, "", <<>>)>>
  ELSE IF outcome = "not_found" THEN <<Finding("schemanotfound", df.rel, "", 0, "", <<>>)>>
  ELSE <<>>

RECURSIVE Flatten(_, _)
Flatten(f, j) == IF j > Len(f) THEN <<>> ELSE f[j] \o Flatten(f, j + 1)

\* The exit status of lines 433-437
\* A variant without strict mode
exit_status_errors_only(errs, warns, strict) ==
  IF errs # <<>> THEN "1" ELSE "0"

exit_status(errs, warns, strict) ==
  IF errs # <<>> THEN "1"
  ELSE IF strict /\ warns # <<>> THEN "1"
  ELSE "0"


-----------------------------------------------------------------------------
(* The state of a run of analyze                                           *)

VARIABLES
  tree,             \* the documents under data/ when the run starts: rel -> bytes
  disk,             \* the documents under data/ now
  dataDirExists,    \* root/data exists
  scanOrder,        \* json_paths: the order rglob yields the documents in
  do_fix, fail_on_warning, out_report_md,   \* analyze's options
  jsonschema_installed,   \* import jsonschema succeeds (line 183)
  pc,               \* where analyze is
  idx,              \* how many of json_paths the loop has handled
  datafiles, id_to_df, id_dups,
  errors, warnings, \* the Report
  manifestFile,     \* <<>> or <<the manifest written>>
  reportFile,       \* <<>> or <<[errors, warnings] as written>>
  exitStatus,       \* "none" until analyze returns "0" or "1", or the
                    \* exception that left it
  clock,            \* the time, in seconds
  faultsLeft,       \* I/O failures the environment may still inject
  runs,             \* runs of analyze started on this tree
  prevManifest,     \* manifestFile as the previous run left it
  probe,            \* a text and what load_json_strict made of it
  written           \* the files this run has created or changed

vars == <<tree, disk, dataDirExists, scanOrder, do_fix, fail_on_warning, out_report_md,
          jsonschema_installed,
          pc, idx, datafiles, id_to_df, id_dups, errors, warnings, manifestFile,
          reportFile, exitStatus, clock, faultsLeft, runs, prevManifest, probe,
          written>>

inputs == <<tree, dataDirExists, scanOrder, do_fix>>

\* out_manifest and out_report_md, relative to root (lines 447, 449)
ManifestPath == "build/data_manifest.json"
ReportPath == "build/report.md"

MaxFaults == 1
MaxClock == 2
MaxRuns == 2

Pending == [err |-> "pending", keys |-> {}, val |-> Null]
NoProbe == [text |-> Null, res |-> Pending]

Present(t) == {r \in AllRels : t[r] # NoFile}

RunStart ==
  /\ pc = "start" /\ idx = 0
  /\ datafiles = <<>> /\ id_to_df = EmptyMap /\ id_dups = <<>>
  /\ errors = <<>> /\ warnings = <<>>
  /\ exitStatus = "none"

\* The trees: two documents with any content of catA, a third with any of catC
Trees(catA, catC) ==
  {t \in [AllRels -> catA \cup catC \cup {NoFile}] :
     t[RelA] \in catA \cup {NoFile} /\ t[RelB] \in catA \cup {NoFile}
       /\ t[RelC] \in catC \cup {NoFile}}

\* fail_on_warning and out_report_md are read once, at lines 435 and 389:
\* their values are drawn where the first run reads them
InitOver(catA, catC) ==
  /\ dataDirExists \in BOOLEAN
  /\ tree \in Trees(catA, catC)
  /\ dataDirExists = FALSE => Present(tree) = {}
  /\ disk = tree
  /\ scanOrder \in Perms(Present(tree))
  /\ do_fix \in BOOLEAN /\ fail_on_warning = FALSE /\ out_report_md = FALSE
  /\ jsonschema_installed = FALSE
  /\ RunStart /\ written = {}
  /\ manifestFile = <<>> /\ reportFile = <<>>
  /\ clock = 1 /\ faultsLeft = MaxFaults /\ runs = 1 /\ prevManifest = <<>>
  /\ probe = NoProbe

Init == InitOver(Catalog, SmallCatalog)

-----------------------------------------------------------------------------
(* The steps of analyze                                                    *)

\* lines 243-246: no data directory
NoDataDir ==
  /\ pc = "start" /\ ~dataDirExists
  /\ errors' = Append(errors, Finding("nodatadir", "data", "", 0, "", <<>>))
  /\ exitStatus' = "1"
  /\ pc' = "done"
  /\ UNCHANGED <<inputs, fail_on_warning, jsonschema_installed, out_report_md,
                 disk, idx, datafiles, id_to_df, id_dups, warnings, manifestFile,
                 reportFile, clock, faultsLeft, runs, prevManifest, probe, written>>

\* lines 248-258
Collect ==
  /\ pc = "start" /\ dataDirExists
  /\ warnings' = IF scanOrder = <<>>
                 THEN Append(warnings, Finding("nojson", "data", "", 0, "", <<>>))
                 ELSE warnings
  /\ pc' = "scan"
  /\ UNCHANGED <<inputs, fail_on_warning, jsonschema_installed, out_report_md,
                 disk, idx, datafiles, id_to_df, id_dups, errors, manifestFile,
                 reportFile, exitStatus, clock, faultsLeft, runs, prevManifest,
                 probe, written>>

ScanFaults == {"open", "hash", "rewrite", "replace"}

\* lines 260-307: one pass of the loop
ScanFile ==
  /\ pc = "scan" /\ idx < Len(scanOrder)
  /\ \E fault \in {"none"} \cup (IF faultsLeft > 0 THEN ScanFaults ELSE {}) :
       LET jp == scanOrder[idx + 1]
           st0 == [datafiles |-> datafiles, id_to_df |-> id_to_df, id_dups |-> id_dups,
                   errors |-> errors, warnings |-> warnings, disk |-> disk,
                   raised |-> "", written |-> written]
           parsed == FileFacts[disk[jp]].load
           \* a failure can only be met at a step the pass reaches
           reached == \/ fault \in {"none", "open"}
                      \/ /\ parsed.err = "none" /\ IsDict(parsed.val)
                         /\ fault \in {"rewrite", "replace"} => do_fix
       IN /\ reached
          /\ \E st \in {scan_one(st0, jp, fault, do_fix)} :
             /\ datafiles' = st.datafiles
             /\ id_to_df' = st.id_to_df
             /\ id_dups' = st.id_dups
             /\ errors' = st.errors
             /\ warnings' = st.warnings
             /\ disk' = st.disk
             /\ written' = st.written
             /\ faultsLeft' = IF fault = "none" THEN faultsLeft ELSE faultsLeft - 1
             /\ idx' = idx + 1
             /\ pc' = IF st.raised # "" THEN "raised" ELSE "scan"
             /\ exitStatus' = IF st.raised # "" THEN st.raised ELSE exitStatus
  /\ UNCHANGED <<inputs, fail_on_warning, jsonschema_installed, out_report_md,
                 manifestFile, reportFile, clock, runs, prevManifest, probe>>

\* lines 309-315
DuplicateIds ==
  /\ pc = "scan" /\ idx = Len(scanOrder)
  /\ errors' = errors \o duplicate_id_errors(id_to_df, id_dups)
  /\ pc' = "refs"
  /\ UNCHANGED <<inputs, fail_on_warning, jsonschema_installed, out_report_md,
                 disk, idx, datafiles, id_to_df, id_dups, warnings, manifestFile,
                 reportFile, exitStatus, clock, faultsLeft, runs, prevManifest,
                 probe, written>>

\* lines 317-327
UnresolvedRefs ==
  /\ pc = "refs"
  /\ errors' = errors \o unresolved_errors(datafiles, id_to_df)
  /\ pc' = "assets"
  /\ UNCHANGED <<inputs, fail_on_warning, jsonschema_installed, out_report_md,
                 disk, idx, datafiles, id_to_df, id_dups, warnings, manifestFile,
                 reportFile, exitStatus, clock, faultsLeft, runs, prevManifest,
                 probe, written>>

\* lines 329-350
AssetRefs ==
  /\ pc = "assets"
  /\ \E w \in asset_warnings(disk, datafiles, 1) : warnings' = warnings \o w
  /\ pc' = "manifest"
  /\ UNCHANGED <<inputs, fail_on_warning, jsonschema_installed, out_report_md,
                 disk, idx, datafiles, id_to_df, id_dups, errors, manifestFile,
                 reportFile, exitStatus, clock, faultsLeft, runs, prevManifest,
                 probe, written>>

\* lines 352-386: build the manifest, stamped with the time, and write it;
\* hashing an asset or opening the manifest may fail, and nothing catches it
WriteManifest ==
  /\ pc = "manifest"
  /\ \E fault \in BOOLEAN :
       /\ fault => faultsLeft > 0
       /\ faultsLeft' = IF fault THEN faultsLeft - 1 ELSE faultsLeft
       /\ manifestFile' = IF fault THEN manifestFile
                          ELSE <<build_manifest(clock, datafiles)>>
       /\ pc' = IF fault THEN "raised" ELSE "report"
       /\ written' = IF fault THEN written ELSE written \cup {ManifestPath}
       /\ exitStatus' = IF fault THEN "OSError" ELSE exitStatus
  /\ UNCHANGED <<inputs, fail_on_warning, jsonschema_installed, out_report_md,
                 disk, idx, datafiles, id_to_df, id_dups, errors, warnings,
                 reportFile, clock, runs, prevManifest, probe>>

\* lines 388-417
WriteReport ==
  /\ pc = "report"
  /\ \E wanted \in (IF runs = 1 THEN BOOLEAN ELSE {out_report_md}) :
       /\ out_report_md' = wanted
       /\ reportFile' = IF wanted
                        THEN <<[errors |-> errors, warnings |-> warnings]>>
                        ELSE reportFile
       /\ written' = IF wanted THEN written \cup {ReportPath} ELSE written
  /\ pc' = "schema"
  /\ UNCHANGED <<inputs, fail_on_warning, jsonschema_installed, disk, idx,
                 datafiles, id_to_df, id_dups, errors, warnings, manifestFile,
                 exitStatus, clock, faultsLeft, runs, prevManifest, probe>>

\* What the schema validation of the records that declare a schema may meet:
\* jsonschema is installed for all of them or for none (the import is tried
\* only for a record that declares a schema, and the run draws it there)
SchemaEnvs(dfs, installed) ==
  LET declared == {j \in 1..Len(dfs) : Truthy(dfs[j].schema)}
  IN IF ~installed
     THEN {[j \in 1..Len(dfs) |-> "not_installed"]}
     ELSE {[j \in 1..Len(dfs) |-> IF j \in declared THEN g[j] ELSE "valid"] :
             g \in [declared -> SchemaOutcomes \ {"not_installed"}]}

\* lines 419-437: validate every record, print, return
ValidateAndReturn ==
  /\ pc = "schema"
  /\ \E installed \in (IF runs = 1 /\ \E j \in 1..Len(datafiles) :
                                          Truthy(datafiles[j].schema)
                       THEN BOOLEAN ELSE {jsonschema_installed}),
        strict \in (IF runs = 1 THEN BOOLEAN ELSE {fail_on_warning}) :
       \E f \in SchemaEnvs(datafiles, installed) :
       \E errs \in {errors \o Flatten([j \in 1..Len(datafiles) |->
                                         schema_errors(datafiles[j], f[j])], 1)},
          warns \in {warnings \o Flatten([j \in 1..Len(datafiles) |->
                                            schema_warnings(datafiles[j], f[j])], 1)} :
          /\ errors' = errs
          /\ warnings' = warns
          /\ fail_on_warning' = strict
          /\ jsonschema_installed' = installed
          /\ exitStatus' = exit_status(errs, warns, strict)
  /\ pc' = "done"
  /\ UNCHANGED <<inputs, out_report_md, disk, idx, datafiles, id_to_df, id_dups,
                 manifestFile, reportFile, clock, faultsLeft, runs, prevManifest,
                 probe, written>>

Next ==
  \/ NoDataDir
  \/ Collect
  \/ ScanFile
  \/ DuplicateIds
  \/ UnresolvedRefs
  \/ AssetRefs
  \/ WriteManifest
  \/ WriteReport
  \/ ValidateAndReturn

Spec == Init /\ [][Next]_vars


-----------------------------------------------------------------------------
(* Two runs on one tree                                                    *)

\* analyze is started again, with the same root and options, on the tree as
\* the last run left it, now or some seconds later
Rerun ==
  /\ pc = "done" /\ runs < MaxRuns
  /\ runs' = runs + 1
  /\ prevManifest' = manifestFile
  /\ tree' = disk
  /\ \E now \in clock..MaxClock : clock' = now
  /\ pc' = "start" /\ idx' = 0
  /\ datafiles' = <<>> /\ id_to_df' = EmptyMap /\ id_dups' = <<>>
  /\ errors' = <<>> /\ warnings' = <<>>
  /\ exitStatus' = "none"
  /\ written' = {}
  /\ UNCHANGED <<disk, dataDirExists, scanOrder, do_fix, fail_on_warning,
                 jsonschema_installed, out_report_md, manifestFile, reportFile,
                 faultsLeft, probe>>

TwiceCatalog == {Text("hand", DocSword2), Text("hand", DocPotion)}

InitTwice == InitOver(TwiceCatalog, SmallCatalog)

NextTwice == Next \/ Rerun

TwoRunSpec == InitTwice /\ [][NextTwice]_vars

-----------------------------------------------------------------------------
(* load_json_strict on its own                                             *)

LoadKeys == {"a", "b"}
MaxKeys == 3

KeySeqs == UNION {[1..m -> LoadKeys] : m \in 0..MaxKeys}
InnerObjs == {Obj([j \in 1..Len(ks) |-> Pair(ks[j], Null)]) : ks \in KeySeqs}
InnerVals == {Null, Bad} \cup InnerObjs \cup {Arr(<<o>>) : o \in InnerObjs}
TopPairs == {Pair(k, v) : k \in LoadKeys, v \in InnerVals}

\* Texts of up to two members at the top, each value a scalar, malformed, an
\* object of up to MaxKeys members or an array of one
LoadDocs ==
  {Obj(<<>>)} \cup {Obj(<<p>>) : p \in TopPairs}
    \cup {Obj(<<p, q>>) : p \in TopPairs, q \in TopPairs}

LoadInit ==
  /\ dataDirExists = FALSE
  /\ tree = [r \in AllRels |-> NoFile]
  /\ disk = tree
  /\ scanOrder = <<>>
  /\ do_fix = FALSE /\ fail_on_warning = FALSE /\ out_report_md = FALSE
  /\ jsonschema_installed = FALSE
  /\ RunStart /\ written = {}
  /\ manifestFile = <<>> /\ reportFile = <<>>
  /\ clock = 1 /\ faultsLeft = MaxFaults /\ runs = 1 /\ prevManifest = <<>>
  /\ probe \in {[text |-> d, res |-> Pending] : d \in LoadDocs}

LoadProbe ==
  /\ probe.res = Pending
  /\ \E openOk \in BOOLEAN :
       probe' = [probe EXCEPT !.res = load_json_strict(openOk, probe.text)]
  /\ UNCHANGED <<tree, disk, dataDirExists, scanOrder, do_fix, fail_on_warning,
                 jsonschema_installed, out_report_md, pc, idx, datafiles, id_to_df,
                 id_dups, errors, warnings, manifestFile, reportFile, exitStatus,
                 clock, faultsLeft, runs, prevManifest, written>>

LoadNext == LoadProbe

LoadSpec == LoadInit /\ [][LoadNext]_vars


-----------------------------------------------------------------------------
(* stable_json_dump step by step (lines 231-236), on one document           *)

DocPath == RelA

\* json.dump hands the text to the file in pieces
MaxChunks == 2

\* The first k pieces of a text
Partial(t, k) == [fmt |-> "part", doc |-> t.doc, n |-> k]

RewriteKeys == {"id", "a", "b"}
RewriteKeySeqs ==
  {ks \in UNION {[1..m -> RewriteKeys] : m \in 0..2} :
     \A i \in DOMAIN ks : \A j \in DOMAIN ks : i # j => ks[i] # ks[j]}
RewriteVals ==
  {Num,
   Obj(<<Pair("b", Num), Pair("id", Num), Pair("a", Num)>>),
   Arr(<<Obj(<<Pair("b", Num), Pair("a", Num)>>)>>),
   Arr(<<Obj(<<Pair("a", Num), Pair("b", Num)>>)>>)}

\* Documents of up to two members, each a number, an object or an array of
\* one object
RewriteDocs ==
  UNION {{Obj([j \in DOMAIN ks |-> Pair(ks[j], vs[j])]) : vs \in [DOMAIN ks -> RewriteVals]} :
           ks \in RewriteKeySeqs}

RewriteInit ==
  /\ dataDirExists = TRUE
  /\ tree = [r \in AllRels |-> NoFile]
  /\ disk = tree
  /\ scanOrder = <<>>
  /\ do_fix = TRUE /\ fail_on_warning = FALSE /\ out_report_md = FALSE
  /\ jsonschema_installed = FALSE
  /\ RunStart /\ written = {}
  /\ manifestFile = <<>> /\ reportFile = <<>>
  /\ clock = 1 /\ faultsLeft = MaxFaults /\ runs = 1 /\ prevManifest = <<>>
  /\ probe \in {[content |-> LoadedDoc(Text("hand", d)),
                 orig |-> Text("hand", d),
                 fs |-> [p \in {DocPath, with_suffix_tmp(DocPath)} |->
                           IF p = DocPath THEN Text("hand", d) ELSE NoFile],
                 step |-> "start", n |-> 0, round |-> 1, first |-> NoFile] :
                  d \in RewriteDocs}

\* line 233: tmp.open("w") creates the file, or empties it
OpenTmp ==
  /\ probe.step = "start"
  /\ probe' = [probe EXCEPT
                 !.fs = [@ EXCEPT ![with_suffix_tmp(DocPath)] =
                                     Partial(stable_json_dump(probe.content), 0)],
                 !.step = "writing"]

\* lines 234-235: json.dump and the newline
WriteChunk ==
  /\ probe.step = "writing" /\ probe.n < MaxChunks
  /\ probe' = [probe EXCEPT
                 !.n = @ + 1,
                 !.fs = [@ EXCEPT ![with_suffix_tmp(DocPath)] =
                           IF probe.n + 1 = MaxChunks
                           THEN stable_json_dump(probe.content)
                           ELSE Partial(stable_json_dump(probe.content), probe.n + 1)]]

\* line 236: tmp.replace(path)
ReplaceTmp ==
  /\ probe.step = "writing" /\ probe.n = MaxChunks
  /\ \E moved \in {probe.fs[with_suffix_tmp(DocPath)]} :
       probe' = [probe EXCEPT
                   !.fs = [p \in DOMAIN probe.fs |-> IF p = DocPath THEN moved ELSE NoFile],
                   !.step = "replaced",
                   !.first = IF probe.round = 1 THEN moved ELSE @]

\* The process dies between two steps
Crash ==
  /\ probe.step \in {"start", "writing"}
  /\ probe' = [probe EXCEPT !.step = "crashed"]

\* The next run with rewrite on loads the file the first left and rewrites it
RewriteAgain ==
  /\ probe.step = "replaced" /\ probe.round = 1
  /\ \E r \in {load_json_strict(TRUE, probe.fs[DocPath].doc)} :
       /\ r.err = "none"
       /\ probe' = [probe EXCEPT !.content = r.val, !.orig = probe.fs[DocPath],
                                 !.step = "start", !.n = 0, !.round = 2]

RewriteNext ==
  /\ \/ OpenTmp
     \/ WriteChunk
     \/ ReplaceTmp
     \/ Crash
     \/ RewriteAgain
  /\ UNCHANGED <<tree, disk, dataDirExists, scanOrder, do_fix, fail_on_warning,
                 jsonschema_installed, out_report_md, pc, idx, datafiles, id_to_df,
                 id_dups, errors, warnings, manifestFile, reportFile, exitStatus,
                 clock, faultsLeft, runs, prevManifest, written>>

RewriteSpec == RewriteInit /\ [][RewriteNext]_vars

-----------------------------------------------------------------------------
(* extract_deps on one parsed value tree                                    *)

DepKeys == {"id", "a_id", "a_ids", "n"}
DepLeaves == {Str("x"), Num, Arr(<<Str("y"), Num>>)}
DepInner == {Obj(<<Pair(k, v)>>) : k \in DepKeys, v \in DepLeaves}
DepVals == DepLeaves \cup DepInner \cup {Arr(<<o>>) : o \in DepInner}

\* Objects of one or two members, each value a string, a number, a list, an
\* object of one member or a list of one such object
DepDocs ==
  {Obj(<<Pair(k, v)>>) : k \in DepKeys, v \in DepVals}
    \cup {Obj(<<Pair(k1, v1), Pair(k2, v2)>>) :
            k1 \in DepKeys, k2 \in DepKeys, v1 \in DepVals, v2 \in DepVals}

DepsInit ==
  /\ dataDirExists = TRUE
  /\ tree = [r \in AllRels |-> NoFile]
  /\ disk = tree
  /\ scanOrder = <<>>
  /\ do_fix = FALSE /\ fail_on_warning = FALSE /\ out_report_md = FALSE
  /\ jsonschema_installed = FALSE
  /\ RunStart /\ written = {}
  /\ manifestFile = <<>> /\ reportFile = <<>>
  /\ clock = 1 /\ faultsLeft = MaxFaults /\ runs = 1 /\ prevManifest = <<>>
  /\ probe \in {[content |-> d, called |-> FALSE, deps |-> {}] :
                  d \in {x \in DepDocs : load_json_strict(TRUE, x).err = "none"}}

\* line 280: deps = extract_deps(content)
DepsProbe ==
  /\ ~probe.called
  /\ probe' = [probe EXCEPT !.called = TRUE, !.deps = extract_deps(probe.content)]
  /\ UNCHANGED <<tree, disk, dataDirExists, scanOrder, do_fix, fail_on_warning,
                 jsonschema_installed, out_report_md, pc, idx, datafiles, id_to_df,
                 id_dups, errors, warnings, manifestFile, reportFile, exitStatus,
                 clock, faultsLeft, runs, prevManifest, written>>

DepsNext == DepsProbe

DepsSpec == DepsInit /\ [][DepsNext]_vars

-----------------------------------------------------------------------------
(* Properties                                                              *)

\* analyze returned after going through the pipeline
Returned == pc = "done" /\ dataDirExists

ErrorsOf(kind) == {j \in 1..Len(errors) : errors[j].kind = kind}
WarningsOf(kind) == {j \in 1..Len(warnings) : warnings[j].kind = kind}

\* The records that declare v, the identifiers declared, the paths declaring v
Declarers(v) == {j \in 1..Len(datafiles) : datafiles[j].id = Some(v)}
DeclaredIds == {datafiles[j].id.v : j \in {m \in 1..Len(datafiles) : datafiles[m].id.some}}
DupErrors(v) == {j \in ErrorsOf("dupid") : errors[j].id = v}

DuplicateReported(v) ==
  LET n == Cardinality(Declarers(v))
  IN IF n >= 2
     THEN \E e \in DupErrors(v) : DupErrors(v) = {e} /\ errors[e].count = n
     ELSE DupErrors(v) = {}

\* C1: when analyze returns, every identifier declared by n >= 2 parsed
\* records has exactly one duplicate-identifier error, with count n, and an
\* identifier declared once has none. The code breaks this for the identifier
\* "": line 296 tests the truth of jid, so two records with "id": "" are
\* listed in the manifest with that id and no duplicate is reported.
C1_EveryDuplicateReported ==
  Returned => \A v \in DeclaredIds : DuplicateReported(v)

\* What the code does keep of C1: the non-empty identifiers
C1_NonEmptyDuplicatesReported ==
  Returned =>
    /\ \A v \in DeclaredIds \ {""} : DuplicateReported(v)
    /\ \A e \in ErrorsOf("dupid") : errors[e].id \in DeclaredIds \ {""}

\* ... and the owner stored for an identifier is never replaced during a run
C1_OwnerKept ==
  [][\A v \in DOMAIN id_to_df : v \in DOMAIN id_to_df' /\ id_to_df'[v] = id_to_df[v]]_vars

C1_ThreeDeclarers ==
  /\ Returned
  /\ Cardinality(Declarers("sword")) = 3
  /\ \E e \in DupErrors("sword") : errors[e].count = 3

\* The lexicographically earliest path among the records declaring v
EarliestDeclarer(v) ==
  CHOOSE r \in {datafiles[j].rel : j \in Declarers(v)} :
    \A j \in Declarers(v) : ~StrLt(datafiles[j].rel, r)

\* C2: for every identifier in the index that two or more records declare,
\* the owner in the index and the "first seen at" of its error are the record
\* with the lexicographically earliest path, whatever order the scan found
\* the files in. The code keeps the order rglob yields (line 122, no sort).
C2_OwnerIsEarliestPath ==
  Returned =>
    \A v \in DOMAIN id_to_df :
      Cardinality(Declarers(v)) >= 2 =>
        /\ id_to_df[v] = EarliestDeclarer(v)
        /\ \A e \in DupErrors(v) : errors[e].first = EarliestDeclarer(v)

\* What the code does: the owner is the first declarer in scan order
C2_OwnerIsFirstScanned ==
  Returned =>
    \A v \in DOMAIN id_to_df :
      /\ Declarers(v) # {}
      /\ LET first == CHOOSE j \in Declarers(v) : \A m \in Declarers(v) : j <= m
         IN /\ id_to_df[v] = datafiles[first].rel
            /\ \A e \in DupErrors(v) : errors[e].first = datafiles[first].rel

UnresolvedErrors(rel) == {j \in ErrorsOf("unresolved") : errors[j].path = rel}

StrictlyAscending(q) == \A a \in 1..Len(q) : \A b \in 1..Len(q) : a < b => StrLt(q[a], q[b])

\* C3: when analyze returns, every parsed record with a reference that is
\* not in the identifier index has exactly one unresolved-reference error,
\* naming its path and its missing identifiers sorted and without repeats,
\* and the exit status is 1; a record whose references are all in the index
\* has none.
C3_UnresolvedReferences ==
  Returned =>
    /\ \A j \in 1..Len(datafiles) :
         LET df == datafiles[j]
             missing == {d \in df.deps : d \notin DOMAIN id_to_df}
         IN IF missing # {}
            THEN /\ \E e \in UnresolvedErrors(df.rel) :
                      /\ UnresolvedErrors(df.rel) = {e}
                      /\ Range(errors[e].items) = missing
                      /\ StrictlyAscending(errors[e].items)
                 /\ exitStatus = "1"
            ELSE UnresolvedErrors(df.rel) = {}
    /\ \A e \in ErrorsOf("unresolved") :
         \E j \in 1..Len(datafiles) : datafiles[j].rel = errors[e].path

\* A record with two missing identifiers beside one whose references all
\* resolve, one of them to itself
C3_TwoMissingOneResolved ==
  /\ Returned
  /\ \E e \in ErrorsOf("unresolved") : Len(errors[e].items) = 2
  /\ \E j \in 1..Len(datafiles) :
       /\ datafiles[j].id.some /\ datafiles[j].id.v \in datafiles[j].deps
       /\ Cardinality(datafiles[j].deps) >= 2
       /\ UnresolvedErrors(datafiles[j].rel) = {}

\* A file exists at root/ref, root/res/ref or root/resources/ref
FoundSomewhere(ref) ==
  \E base \in {"", "res/", "resources/"} : Exists(disk, base \o ref)

AssetWarnings(rel, ref) == {j \in WarningsOf("asset") : warnings[j].path = rel /\ warnings[j].id = ref}

\* C4: when analyze returns, every asset reference of a record that resolves
\* nowhere has exactly one warning, a resolved one has none, no error is about
\* an asset, and with no error and strict mode off the exit status is 0.
C4_MissingAssetWarns ==
  Returned =>
    /\ \A j \in 1..Len(datafiles) : \A ref \in datafiles[j].asset_refs :
         Cardinality(AssetWarnings(datafiles[j].rel, ref)) =
           (IF FoundSomewhere(ref) THEN 0 ELSE 1)
    /\ \A e \in 1..Len(errors) : errors[e].kind # "asset"
    /\ (errors = <<>> /\ ~fail_on_warning) => exitStatus = "0"

C4_WarnedAndExitZero ==
  /\ Returned
  /\ WarningsOf("asset") # {}
  /\ \E j \in 1..Len(datafiles) :
       \E a \in datafiles[j].asset_refs, b \in datafiles[j].asset_refs :
         FoundSomewhere(a) /\ ~FoundSomewhere(b)
  /\ errors = <<>> /\ ~fail_on_warning /\ exitStatus = "0"

\* C5: the exit status analyze returns is 0 if and only if the Report holds
\* no error and strict mode is off or it holds no warning; otherwise it is 1.
C5_ExitStatus ==
  pc = "done" =>
    /\ exitStatus \in {"0", "1"}
    /\ exitStatus = "0" <=> (errors = <<>> /\ (~fail_on_warning \/ warnings = <<>>))

\* The only error is a schema violation, found after the manifest and report
C5_SchemaErrorOnly ==
  /\ pc = "done" /\ exitStatus = "1" /\ ~fail_on_warning
  /\ Len(errors) = 1 /\ errors[1].kind = "schemainvalid"

\* C6: a second run of analyze on the tree the first run left, with the same
\* options and rewrite off, neither run meeting an I/O failure, writes the
\* manifest the first run wrote. The code
\* stamps the manifest with the time of the run (line 354), so two runs a
\* second apart write different bytes.
C6_SameManifestTwice ==
  (runs = 2 /\ Returned /\ ~do_fix /\ faultsLeft = MaxFaults) => manifestFile = prevManifest

\* What the code does keep of C6: everything but the stamp
C6_SameButTheStamp ==
  (runs = 2 /\ Returned /\ ~do_fix /\ faultsLeft = MaxFaults) =>
    /\ Len(manifestFile) = 1 /\ Len(prevManifest) = 1
    /\ [manifestFile[1] EXCEPT !.generated_at_utc = 0]
         = [prevManifest[1] EXCEPT !.generated_at_utc = 0]

\* C7: a run that ends with exit status 1 and errors in its Report has
\* written the manifest before it returned. The code returns 1 before
\* anything is written when root/data does not exist (lines 243-246).
C7_ErrorRunWroteManifest ==
  (pc = "done" /\ exitStatus = "1" /\ errors # <<>>) => manifestFile # <<>>

\* What the code does keep of C7: a run that found the data directory and
\* returned has written the manifest of its records
C7_ManifestOnceDataDirFound ==
  Returned => manifestFile = <<build_manifest(clock, datafiles)>>

\* The documents of the tree that fail strict loading on their own account
FailsToLoad(r) == FileFacts[tree[r]].load.err \in {"syntax", "dupkey"}
FailingDocs == {r \in Range(scanOrder) : FailsToLoad(r)}
IsLoadError(e) == e.kind \in {"syntax", "dupkey"}

\* The loop run over an order of documents with no I/O failure
RECURSIVE ScanAll(_, _, _)
ScanAll(st, order, j) ==
  IF j > Len(order) \/ st.raised # "" THEN st
  ELSE ScanAll(scan_one(st, order[j], "none", do_fix), order, j + 1)

\* The run on the same tree without the failing documents, up to the checks
\* of the references
WithoutFailing ==
  LET st == ScanAll([datafiles |-> <<>>, id_to_df |-> EmptyMap, id_dups |-> <<>>,
                     errors |-> <<>>, warnings |-> <<>>, disk |-> tree, raised |-> "",
           written |-> {}],
                    SelectSeq(scanOrder, LAMBDA r : ~FailsToLoad(r)), 1)
  IN [st EXCEPT !.errors = @ \o duplicate_id_errors(st.id_to_df, st.id_dups)
                             \o unresolved_errors(st.datafiles, st.id_to_df)]

\* C8: in a run that meets no I/O failure and has written its manifest, each
\* document that fails strict loading has exactly one error, is in no record,
\* owns no identifier, has no reference checked and is not in the manifest;
\* the records, the index, the duplicate counts, the rewritten files, the
\* other errors, the warnings and the manifest are those of the run on the
\* tree without the failing documents.
C8_FailingDocumentOnlyExcluded ==
  (pc \in {"report", "schema"} /\ faultsLeft = MaxFaults) =>
    \A ref \in {WithoutFailing} :
      /\ Cardinality({j \in 1..Len(errors) : IsLoadError(errors[j])})
           = Cardinality(FailingDocs)
      /\ \A r \in FailingDocs :
           /\ FileFacts[tree[r]].load.err = "syntax" =>
                Cardinality({j \in ErrorsOf("syntax") : errors[j].path = r}) = 1
           /\ \A j \in 1..Len(datafiles) : datafiles[j].rel # r
           /\ \A v \in DOMAIN id_to_df : id_to_df[v] # r
           /\ UnresolvedErrors(r) = {}
           /\ \A j \in 1..Len(manifestFile[1].data) : manifestFile[1].data[j].path # r
      /\ datafiles = ref.datafiles
      /\ id_to_df = ref.id_to_df
      /\ id_dups = ref.id_dups
      /\ disk = ref.disk
      /\ SelectSeq(errors, LAMBDA e : ~IsLoadError(e)) = ref.errors
      /\ \E aw \in asset_warnings(ref.disk, ref.datafiles, 1) :
           SelectSeq(warnings, LAMBDA w : w.kind # "nojson") = ref.warnings \o aw
      /\ manifestFile = <<build_manifest(clock, ref.datafiles)>>

\* A syntax error in one document, and another document whose reference to
\* the identifier the first would have declared is unresolved
C8_FailedBesideProcessed ==
  /\ pc = "schema" /\ faultsLeft = MaxFaults
  /\ \E r \in FailingDocs : tree[r] = Text("hand", DocSyntax)
  /\ \E e \in ErrorsOf("unresolved") : errors[e].items = <<"sword">>
  /\ Len(manifestFile[1].data) = 1

\* C9: an I/O failure on one file, at any step of the loop or while the
\* assets are hashed, becomes an error of the Report and the run goes on to
\* the manifest and an exit status. The code catches a failure of open() in
\* load_json_strict and of the rewrite, but not of sha256_of_file (lines 279,
\* 371), of stat (line 372) or of the manifest's open (line 384): the
\* exception leaves analyze.
C9_NoIOFailureEscapes ==
  ~(pc = "raised" /\ exitStatus = "OSError")

\* What the code does keep of C9: a failure to open a document for parsing,
\* or to rewrite it, is an error of the Report and the loop goes on
C9_OpenAndRewriteCaught ==
  [][\A k \in {"io", "rewrite"} :
       Cardinality({j \in 1..Len(errors') : errors'[j].kind = k})
         > Cardinality({j \in 1..Len(errors) : errors[j].kind = k})
       => pc' = "scan" /\ idx' = idx + 1 /\ faultsLeft' = faultsLeft - 1]_vars

\* The nodes of a text, the keys an object holds more than once
RECURSIVE Nodes(_)
Nodes(n) == {n} \cup UNION {Nodes(n.kids[j]) : j \in 1..Len(n.kids)}
RepeatedKeys(o) ==
  {KeyOf(o.kids[j]) : j \in {m \in 1..Len(o.kids) :
                               \E l \in 1..Len(o.kids) : l # m /\ KeyOf(o.kids[l]) = KeyOf(o.kids[m])}}
RepeatingObjects(n) == {o \in Nodes(n) : IsDict(o) /\ RepeatedKeys(o) # {}}
WellFormed(n) == \A m \in Nodes(n) : m.t # "bad"

\* C10: load_json_strict fails with a duplicate-key error only if one object
\* of the text, at any depth, holds a key more than once, and the error names
\* the keys that object repeats; a text that can be opened and is well formed
\* fails so if there is such an object, and loads if there is none, also when
\* a key is held once each by a parent and a child or by two siblings.
C10_DuplicateKeyIffRepeated ==
  probe.res # Pending =>
    /\ probe.res.err = "dupkey" =>
         \E o \in RepeatingObjects(probe.text) : probe.res.keys = RepeatedKeys(o)
    /\ (probe.res.err # "io" /\ WellFormed(probe.text)) =>
         /\ probe.res.err = "dupkey" <=> RepeatingObjects(probe.text) # {}
         /\ probe.res.err = "none" <=> RepeatingObjects(probe.text) = {}

\* The child repeats a key its parent holds once, and a sibling holds it too
C10_RepeatedInChildOnly ==
  /\ probe.res.err = "dupkey" /\ probe.res.keys = {"a"}
  /\ RepeatedKeys(probe.text) = {}
  /\ Len(probe.text.kids) = 2
  /\ KeyOf(probe.text.kids[1]) = "a" /\ KeyOf(probe.text.kids[2]) = "b"
  /\ \A j \in 1..2 : IsDict(ValOf(probe.text.kids[j])) /\ HasKey(ValOf(probe.text.kids[j]), "a")

\* C11: the file a second stable_json_dump leaves, given what was loaded from
\* the file the first one left, is byte for byte the file the first one left.
C11_RewriteIdempotent ==
  (probe.round = 2 /\ probe.step = "replaced") => probe.fs[DocPath] = probe.first

\* The first rewrite sorted a nested object, beside an array of objects
C11_RewrittenTwice ==
  /\ probe.round = 2 /\ probe.step = "replaced"
  /\ \E j \in 1..Len(probe.first.doc.kids) : IsList(ValOf(probe.first.doc.kids[j]))
  /\ \E j \in 1..Len(probe.first.doc.kids) :
       /\ IsDict(ValOf(probe.first.doc.kids[j]))
       /\ KeyOf(ValOf(probe.first.doc.kids[j]).kids[1]) = "id"
  /\ probe.fs[DocPath].fmt = "dump"

\* The keys of an object are in ascending order, but for "id" in front
KeysInOrder(o) ==
  \A i \in 1..Len(o.kids) : \A j \in 1..Len(o.kids) :
    i < j => /\ KeyOf(o.kids[j]) # "id"
             /\ KeyOf(o.kids[i]) = "id" \/ StrLt(KeyOf(o.kids[i]), KeyOf(o.kids[j]))

\* C12: in the file stable_json_dump leaves, every object, at every depth
\* and also inside arrays, has its keys in ascending order but for "id" in
\* front. sort_keys returns whatever is not a dict as it is (line 222), so it
\* never reaches an object inside an array.
C12_EveryObjectSorted ==
  probe.step = "replaced" =>
    \A o \in Nodes(probe.fs[DocPath].doc) : IsDict(o) => KeysInOrder(o)

\* The objects sort_keys does reach: those met through objects only
RECURSIVE ObjectsThroughObjects(_)
ObjectsThroughObjects(o) ==
  IF ~IsDict(o) THEN {}
  ELSE {o} \cup UNION {ObjectsThroughObjects(ValOf(o.kids[j])) : j \in 1..Len(o.kids)}

\* What the code does keep of C12
C12_SortedOutsideArrays ==
  probe.step = "replaced" =>
    \A o \in ObjectsThroughObjects(probe.fs[DocPath].doc) : KeysInOrder(o)

\* C14: in every state of stable_json_dump, a crash at any point included,
\* the document's own path holds its complete content of before the call or
\* the complete new content.
C14_OriginalOrNew ==
  probe.fs[DocPath] \in {probe.orig, stable_json_dump(probe.content)}

\* A crash with the temporary file half written, the new content differing
C14_CrashedHalfWritten ==
  /\ probe.step = "crashed"
  /\ probe.fs[with_suffix_tmp(DocPath)] = Partial(stable_json_dump(probe.content), 1)
  /\ probe.fs[DocPath] = probe.orig
  /\ probe.orig # stable_json_dump(probe.content)

\* C13: a document that fails to load with a syntax error or a duplicate
\* key holds the bytes it had when the run started, at every moment of the
\* run; at the end of a run with rewrite on, every document that loaded holds
\* what stable_json_dump makes of its content, unless the load or the rewrite
\* met an I/O failure, which is then an error of the Report and leaves the
\* bytes as they were; with rewrite off no document changes.
C13_OnlyParsedRewritten ==
  /\ \A r \in Range(scanOrder) : FailsToLoad(r) => disk[r] = tree[r]
  /\ ~do_fix => disk = tree
  /\ (Returned /\ do_fix) =>
       \A r \in Range(scanOrder) : ~FailsToLoad(r) =>
         \/ disk[r] = FileFacts[tree[r]].dump
         \/ /\ disk[r] = tree[r]
            /\ \E e \in ErrorsOf("io") \cup ErrorsOf("rewrite") : errors[e].path = r

\* A run with rewrite on over a malformed document, one with a duplicate
\* key and one that loads and is changed by the rewrite
C13_RewrittenBesideFailed ==
  /\ Returned /\ do_fix /\ faultsLeft = MaxFaults
  /\ \E r \in FailingDocs : tree[r] = Text("hand", DocSyntax)
  /\ \E r \in FailingDocs : tree[r] = Text("hand", DocDupKey)
  /\ \E r \in Range(scanOrder) :
       ~FailsToLoad(r) /\ disk[r] # tree[r] /\ disk[r].fmt = "dump"

\* C15: when analyze returns, every asset reference of every record has a
\* warning or resolves to a member of the asset set collected under res/ and
\* resources/. resolve_asset also accepts any existing file with an asset
\* extension relative to the root (lines 334-335, 342-343), such as a picture
\* under data/, which is no member of the asset set.
C15_ResolvesToDiscoveredAsset ==
  Returned =>
    \A j \in 1..Len(datafiles) : \A ref \in datafiles[j].asset_refs :
      \/ AssetWarnings(datafiles[j].rel, ref) # {}
      \/ /\ resolve_asset(disk, ref).some
         /\ resolve_asset(disk, ref).v \in collect_asset_files

\* What the code does keep of C15: a reference without a warning resolves to
\* an existing file with an asset extension
C15_ResolvesToExistingFile ==
  Returned =>
    \A j \in 1..Len(datafiles) : \A ref \in datafiles[j].asset_refs :
      \/ AssetWarnings(datafiles[j].rel, ref) # {}
      \/ /\ resolve_asset(disk, ref).some
         /\ Exists(disk, resolve_asset(disk, ref).v)
         /\ HasAssetSuffix(resolve_asset(disk, ref).v)

\* C16: when a report path is given, the report file the run leaves lists
\* the errors and the warnings the run returns with. The report is written
\* (lines 388-417) before try_schema_validate runs (lines 419-421): what the
\* schema validation finds is printed and counts for the exit status but is
\* not in the file.
C16_ReportListsAllFindings ==
  (Returned /\ out_report_md) =>
    reportFile = <<[errors |-> errors, warnings |-> warnings]>>

\* What the code does keep of C16: the report lists the findings made before
\* the schema validation, and what is missing are that validation's findings
C16_ReportListsEarlierFindings ==
  (Returned /\ out_report_md) =>
    /\ Len(reportFile) = 1
    /\ Len(reportFile[1].errors) <= Len(errors)
    /\ Len(reportFile[1].warnings) <= Len(warnings)
    /\ reportFile[1].errors = SubSeq(errors, 1, Len(reportFile[1].errors))
    /\ reportFile[1].warnings = SubSeq(warnings, 1, Len(reportFile[1].warnings))
    /\ \A j \in 1..Len(errors) :
         j > Len(reportFile[1].errors) <=> errors[j].kind \in {"schemaload", "schemainvalid"}
    /\ \A j \in 1..Len(warnings) :
         j > Len(reportFile[1].warnings)
           <=> warnings[j].kind \in {"noschemaengine", "schemanotfound"}

\* No identifier is declared by two records; every reference is to a
\* declared identifier
NoDuplicateIds == \A v \in DeclaredIds : Cardinality(Declarers(v)) = 1
NoDangling == \A j \in 1..Len(datafiles) : datafiles[j].deps \subseteq DeclaredIds

AllLoadWithStringIds ==
  \A r \in Range(scanOrder) :
    /\ FileFacts[tree[r]].load.err = "none"
    /\ IsDict(LoadedDoc(tree[r])) =>
         IsNone(Get(LoadedDoc(tree[r]), "id")) \/ IsStr(Get(LoadedDoc(tree[r]), "id"))

EntryKey(e) == <<e.type, IF e.id.some THEN e.id.v ELSE e.path>>

\* C18: in every manifest written, the records are in ascending order of
\* (type, identifier if declared else path), each record's deps are in
\* ascending order, the assets are in ascending order of the path string
\* written for them, and the per-type counts are in ascending order of type.
\* The assets are sorted as Path objects (line 374), part by part: res/a/x.png
\* comes before res/a.b/x.png, whose path string is the smaller one; and a
\* record with the id "" is placed by its path (line 366, d.id or d.rel).
C18_ManifestSorted ==
  manifestFile # <<>> =>
    LET m == manifestFile[1]
    IN /\ \A i \in 1..Len(m.data) : \A j \in 1..Len(m.data) :
            i < j => ~KeyLt(EntryKey(m.data[j]), EntryKey(m.data[i]))
       /\ \A i \in 1..Len(m.data) : StrictlyAscending(m.data[i].deps)
       /\ \A i \in 1..Len(m.assets) : \A j \in 1..Len(m.assets) :
            i < j => StrLt(m.assets[i].path, m.assets[j].path)
       /\ \A i \in 1..Len(m.stats.types) : \A j \in 1..Len(m.stats.types) :
            i < j => StrLt(m.stats.types[i][1], m.stats.types[j][1])

\* What the code does keep of C18: the records by (type, non-empty identifier
\* else path), the deps, the assets in the order of Path, the types
C18_ManifestSortedAsCoded ==
  manifestFile # <<>> =>
    LET m == manifestFile[1]
        key(e) == <<e.type, IF Truthy(e.id) THEN e.id.v ELSE e.path>>
    IN /\ \A i \in 1..Len(m.data) : \A j \in 1..Len(m.data) :
            i < j => ~KeyLt(key(m.data[j]), key(m.data[i]))
       /\ \A i \in 1..Len(m.data) : StrictlyAscending(m.data[i].deps)
       /\ \A i \in 1..Len(m.assets) : \A j \in 1..Len(m.assets) :
            i < j => PathLt(m.assets[i].path, m.assets[j].path)
       /\ \A i \in 1..Len(m.stats.types) : \A j \in 1..Len(m.stats.types) :
            i < j => StrLt(m.stats.types[i][1], m.stats.types[j][1])

\* The records of a run that meets no I/O failure and finds the documents
\* in the given order
RecordsInOrder(order) ==
  ScanAll([datafiles |-> <<>>, id_to_df |-> EmptyMap, id_dups |-> <<>>,
           errors |-> <<>>, warnings |-> <<>>, disk |-> tree, raised |-> "",
           written |-> {}],
          order, 1).datafiles

\* C19: the manifest a run writes is the manifest of the run on the same
\* tree for every other order the scan may find the documents in. sorted()
\* is stable (line 366) and json_paths is not sorted (lines 121-122, 248):
\* two records with the same type and identifier are listed in the order they
\* were found.
C19_SameManifestForEveryOrder ==
  (manifestFile # <<>> /\ faultsLeft = MaxFaults) =>
    \A order \in Perms(Range(scanOrder)) :
      manifestFile[1] = build_manifest(clock, RecordsInOrder(order))

\* What the code does keep of C19: the order found does not matter when no
\* two records have the same type and identifier
C19_SameManifestWhenKeysDiffer ==
  (manifestFile # <<>> /\ faultsLeft = MaxFaults
     /\ \A i \in 1..Len(datafiles) : \A j \in 1..Len(datafiles) :
          i # j => SortKey(datafiles[i]) # SortKey(datafiles[j])) =>
    \A order \in Perms(Range(scanOrder)) :
      manifestFile[1] = build_manifest(clock, RecordsInOrder(order))

SchemaWarningKinds == {"noschemaengine", "schemanotfound"}
SchemaErrorKinds == {"schemaload", "schemainvalid"}

\* C20: when analyze returns and jsonschema could not be imported, each
\* record that declares a schema has exactly one warning from the schema
\* validation, saying so, and no error from it; a record that declares none
\* has nothing from it; and with strict mode off the exit status is the one
\* of the run's other findings.
C20_NoEngineWarnsOnly ==
  (Returned /\ ~jsonschema_installed) =>
    /\ \A j \in 1..Len(datafiles) :
         LET rel == datafiles[j].rel
             ws == {w \in 1..Len(warnings) :
                      warnings[w].kind \in SchemaWarningKinds /\ warnings[w].path = rel}
         IN IF Truthy(datafiles[j].schema)
            THEN \E w \in ws : ws = {w} /\ warnings[w].kind = "noschemaengine"
            ELSE ws = {}
    /\ \A e \in 1..Len(errors) : errors[e].kind \notin SchemaErrorKinds
    /\ ~fail_on_warning =>
         exitStatus = exit_status(errors,
                                  SelectSeq(warnings, LAMBDA w : w.kind \notin SchemaWarningKinds),
                                  FALSE)

\* Without the engine: a record with a schema and a warning, one without,
\* no error, strict mode off, exit status 0
C20_WarnedWithoutEngine ==
  /\ Returned /\ ~jsonschema_installed /\ ~fail_on_warning
  /\ \E j \in 1..Len(datafiles) : Truthy(datafiles[j].schema)
  /\ \E j \in 1..Len(datafiles) : ~Truthy(datafiles[j].schema)
  /\ WarningsOf("noschemaengine") # {}
  /\ errors = <<>> /\ exitStatus = "0"

\* The documents of the tree that load as an object whose id is absent,
\* null or no string
LoadsWithoutId(r) ==
  /\ FileFacts[tree[r]].load.err = "none"
  /\ IsDict(LoadedDoc(tree[r]))
  /\ ~IsStr(Get(LoadedDoc(tree[r]), "id"))

\* C21: in a run that meets no I/O failure and returns, a document that
\* loads as an object without an id, with the id null or with an id that is
\* no string has one record, without identifier and with the digest of the
\* file; the manifest lists it with id null and that digest; its identifier
\* references that are not in the index are reported and its asset references
\* that resolve nowhere are warned about; it owns no identifier of the
\* index; and an id that is no string, and only that, is reported as an error.
C21_RecordWithoutIdentifier ==
  (Returned /\ faultsLeft = MaxFaults) =>
    \A r \in {x \in Range(scanOrder) : LoadsWithoutId(x)} :
      /\ \E j \in 1..Len(datafiles) :
           /\ \A m \in 1..Len(datafiles) : datafiles[m].rel = r <=> m = j
           /\ datafiles[j].id = None
           /\ datafiles[j].sha256 = sha256_of_file(tree[r])
           /\ datafiles[j].deps = FileFacts[tree[r]].deps
           /\ datafiles[j].asset_refs = FileFacts[tree[r]].asset_refs
           /\ UnresolvedErrors(r) # {} <=> \E d \in datafiles[j].deps : d \notin DOMAIN id_to_df
           /\ \A ref \in datafiles[j].asset_refs :
                AssetWarnings(r, ref) # {} <=> ~FoundSomewhere(ref)
      /\ \E j \in 1..Len(manifestFile[1].data) :
           /\ \A m \in 1..Len(manifestFile[1].data) :
                manifestFile[1].data[m].path = r <=> m = j
           /\ manifestFile[1].data[j].id = None
           /\ manifestFile[1].data[j].sha256 = sha256_of_file(tree[r])
      /\ \A v \in DOMAIN id_to_df : id_to_df[v] # r
      /\ Cardinality({e \in ErrorsOf("idtype") : errors[e].path = r})
           = (IF IsNone(Get(LoadedDoc(tree[r]), "id")) THEN 0 ELSE 1)

\* A run over a document with the id null, one whose id is a number and one
\* that declares an identifier: two unresolved references, one id error
C21_NullAndNumberId ==
  /\ Returned /\ faultsLeft = MaxFaults
  /\ \E r \in Range(scanOrder) : tree[r] = Text("hand", DocNullId)
  /\ \E r \in Range(scanOrder) : tree[r] = Text("hand", DocNumId)
  /\ Len(datafiles) = 3 /\ DOMAIN id_to_df = {"sword"}
  /\ Cardinality(ErrorsOf("idtype")) = 1 /\ Cardinality(ErrorsOf("unresolved")) = 2
  /\ Len(manifestFile[1].data) = 3

\* The documents of the tree that load
ParsedDocs == {r \in Range(scanOrder) : FileFacts[tree[r]].load.err = "none"}

\* C22: at every moment of a run, the files it has created or changed are
\* among the manifest, the report when one is asked for, and, with rewrite
\* on, the documents that loaded and their temporary files; every other
\* document holds the bytes it had when the run started, and so does every
\* document when rewrite is off.
C22_WritesOnlyOutputs ==
  /\ written \subseteq
       {ManifestPath}
         \cup (IF out_report_md THEN {ReportPath} ELSE {})
         \cup (IF do_fix THEN UNION {{r, with_suffix_tmp(r)} : r \in ParsedDocs} ELSE {})
  /\ \A r \in AllRels : r \notin written => disk[r] = tree[r]
  /\ \A p \in written : p \notin OtherFiles
  /\ ~do_fix => disk = tree

\* A run with rewrite on that wrote the manifest, the report, one document
\* and its temporary file, and left a malformed document alone
C22_AllWritesSeen ==
  /\ Returned /\ do_fix /\ out_report_md
  /\ {ManifestPath, ReportPath} \subseteq written
  /\ \E r \in ParsedDocs : {r, with_suffix_tmp(r)} \subseteq written /\ disk[r] # tree[r]
  /\ \E r \in FailingDocs : r \notin written /\ with_suffix_tmp(r) \notin written

\* The members of a value tree, at any depth
Members(n) == {p \in Nodes(n) : p.t = "pair"}

\* The strings that are the value of a key ending in "_id", or an element of
\* the list that is the value of a key ending in "_ids"
ReferencedIds(n) ==
  {ValOf(p).s : p \in {q \in Members(n) : EndsWith(KeyOf(q), "_id") /\ IsStr(ValOf(q))}}
    \cup UNION {{x.s : x \in {y \in Range(ValOf(p).kids) : IsStr(y)}} :
                  p \in {q \in Members(n) : EndsWith(KeyOf(q), "_ids") /\ IsList(ValOf(q))}}

\* C23: extract_deps returns the strings that are the value of a key ending
\* in "_id" or a string element of the list under a key ending in "_ids", at
\* any depth, in objects and in arrays, and nothing else: no element that is
\* no string, no list under "_id", no string under "_ids", not the value of
\* "id".
C23_ExtractDeps ==
  probe.called =>
    /\ probe.deps = ReferencedIds(probe.content)
    /\ probe.deps \subseteq {"x", "y"}
    /\ "x" \in probe.deps =>
         \E q \in Members(probe.content) : KeyOf(q) = "a_id" /\ ValOf(q) = Str("x")
    /\ "y" \in probe.deps =>
         \E q \in Members(probe.content) : KeyOf(q) = "a_ids" /\ IsList(ValOf(q))

\* The record's id is a string, and its one reference is the string of a
\* list under "a_ids" in an object inside an array
C23_NestedInArray ==
  /\ probe.called /\ probe.deps = {"y"}
  /\ Get(probe.content, "id") = Str("x")
  /\ IsList(Get(probe.content, "n"))
  /\ \E p \in Members(probe.content) : KeyOf(p) = "a_ids" /\ p \notin Range(probe.content.kids)

\* C24: when the run has returned, the sha256 of every record of the
\* manifest is the digest of the document as it is on disk then. The code
\* takes the digest at line 279 and rewrites the document at lines 302-307,
\* so the digest of a rewritten document is that of the bytes it replaced.
C24_DigestOfFinalBytes ==
  Returned =>
    \A j \in 1..Len(manifestFile[1].data) :
      manifestFile[1].data[j].sha256 = sha256_of_file(disk[manifestFile[1].data[j].path])

\* What the code does keep of C24: the digest is that of the bytes the
\* document had when the run started
C24_DigestOfBytesRead ==
  Returned =>
    \A j \in 1..Len(manifestFile[1].data) :
      manifestFile[1].data[j].sha256 = sha256_of_file(tree[manifestFile[1].data[j].path])

\* C25: a run over a tree that can be read throughout ends with exit status
\* 0 or 1 and its manifest written. The code calls content.get("id") at line
\* 268 on whatever the document parsed to: a list, a string, a number or
\* null has no get, and the AttributeError leaves analyze.
C25_ReadableTreeReturns ==
  (faultsLeft = MaxFaults /\ dataDirExists /\ pc \in {"done", "raised"}) =>
    /\ pc = "done" /\ exitStatus \in {"0", "1"}
    /\ manifestFile # <<>>

\* What the code does keep of C25: without I/O failures, the run is left by
\* an exception only at a document whose top-level value is not an object
C25_AbortsOnlyAtNonObject ==
  (faultsLeft = MaxFaults /\ pc = "raised") =>
    /\ exitStatus = "AttributeError"
    /\ FileFacts[tree[scanOrder[idx]]].load.err = "none"
    /\ ~IsDict(LoadedDoc(tree[scanOrder[idx]]))

=============================================================================
